---- MODULE Spec2Model ----
(***************************************************************************)
(* Drag-to-stamp drawing program (src/Zad2Lab1/index.js).                  *)
(*                                                                         *)
(* The state is the closure state of installMouseHandler (dragging,        *)
(* startX/startY, prevX/prevY, colorChoice, shapeType), the listener lists *)
(* of the canvas and of the document, the two UI controls read at drag     *)
(* start, and the drawing surface (its fill style and the commands issued  *)
(* on the 2D context).  One action per user event: the event is dispatched *)
(* to the listeners registered for its type, and each listener runs the    *)
(* whole handler.                                                          *)
(*                                                                         *)
(* Pointer coordinates are kept in half pixels (a name ending in 2 is a    *)
(* value times two), so that Math.round has something to round.            *)
(***************************************************************************)
EXTENDS Integers, Sequences, FiniteSets, TLC

VARIABLES
    dragging,        \* line 31
    startX, startY,  \* line 32
    prevX, prevY,    \* line 33
    colorChoice,     \* line 35
    shapeType,       \* line 36
    canvasListeners, \* listener list of the canvas element
    docListeners,    \* listener list of the document
    colorValue,      \* document.getElementById("colorChoice").value
    shapeValue,      \* document.getElementById("shapeType").value
    fillStyle,       \* graphics.fillStyle
    surface,         \* the drawing commands issued on graphics, in order
    event,           \* the event delivered last (type, position, button),
                     \* or the drawing helper called last (name, arguments)
    calls,           \* how often each handler ran for that event
    gstate,          \* graphics: current transform and stack of saved states
    page             \* the page: what init() finds and what it has done

vars == <<dragging, startX, startY, prevX, prevY, colorChoice, shapeType,
          canvasListeners, docListeners, colorValue, shapeValue,
          fillStyle, surface, event, calls, gstate, page>>

-----------------------------------------------------------------------------
(* Bounds of the model. *)

\* Stamps (painted shapes) the surface log may hold.
MaxStamps == 2

\* Pointer positions of the delivered events, in half pixels (client space),
\* the canvas lying at (8,8).
\* The surface-local points (50,50), (50,52) and (50.5,52), which rounds to
\* (51,52): at Manhattan distance 2, 3 and 1 of each other.
ClientPoints2 == {<<116, 116>>, <<116, 120>>, <<117, 120>>}
\* The surface-local points (50,50) and (50,55).
FarClientPoints2 == {<<116, 116>>, <<116, 126>>}

Buttons == {0, 2}

\* Values the two select controls may hold, each the sequence of its
\* characters ("10" and "2" are outside the enumerated colours and shapes;
\* " 3" and "04" are blue and yellow written with a blank and a leading zero).
ColorValues == {<<"1">>, <<"1", "0">>}
ShapeValues == {<<"0">>, <<"2">>}
PaletteColorValues == {<<"1">>, <<"2">>, <<" ", "3">>, <<"0", "4">>}
PaletteShapeValues == {<<"0">>}
InRangeColorValues == {<<"1">>, <<"2">>}
InRangeShapeValues == {<<"0">>, <<"1">>}

\* Longest argument list of a polygon call; the lists are the prefixes of
\* PolyNumbers, which begins with the triangle (0,0), (10,0), (5,10).
MaxPolyArgs == 7
PolyNumbers == <<0, 0, 10, 0, 5, 10, 7, 3, 9>>

\* Arguments (x, y, horizontalRadius, verticalRadius) of an oval call.
OvalArguments == {<<50, 50, 10, 20>>, <<0, 0, 1, 1>>}

\* Arguments (x1, y1, x2, y2) of a line call and (x, y, radius) of a circle
\* call.
LineArguments == {<<0, 0, 10, 10>>, <<5, 5, 5, 5>>}
CircleArguments == {<<50, 50, 10>>, <<0, 0, 1>>}

\* Calls of clear() the surface log may hold.
MaxClears == 1

\* Values three successive calls of Math.random() may return, in thousandths.
RandomTriples == {<<0, 0, 0>>, <<999, 500, 0>>}

-----------------------------------------------------------------------------
(* JavaScript values. *)

Undefined == [type |-> "undefined"]
NaN == [type |-> "NaN"]
Num(n) == [type |-> "number", val |-> n]
IsNum(v) == v.type = "number"

\* A JavaScript string is the sequence of its characters: "10" is
\* <<"1", "0">> and the empty string is <<>>.

\* A number that is not an integer, as the fraction num/den in lowest terms.
Fraction(num, den) == [type |-> "number", num |-> num, den |-> den]

\* Infinity (sign 1) and -Infinity (sign -1).
Infinity(sign) == [type |-> "number", infinite |-> sign]

RECURSIVE GCD(_, _)
GCD(a, b) == IF b = 0 THEN a ELSE GCD(b, a % b)

RECURSIVE Power(_, _)
Power(base, k) == IF k = 0 THEN 1 ELSE base * Power(base, k - 1)

\* The number num/den (den > 0): an integer where the division is exact.
Rational(num, den) ==
    LET g == GCD(IF num < 0 THEN -num ELSE num, den)
    IN IF den \div g = 1 THEN Num(num \div g)
       ELSE Fraction(num \div g, den \div g)

\* A character the language cannot hold in a string is written by its code
\* point: "U+2003" is the one character EM SPACE.
UnwritableSpaces ==
    {"U+2000", "U+2001", "U+2002", "U+2003", "U+2004", "U+2005", "U+2006",
     "U+2007", "U+2008", "U+2009", "U+200A", "U+202F", "U+205F", "U+3000"}
LineSeparators == {"U+2028", "U+2029"}

\* White space Number() strips from both ends of the string
\* (StrWhiteSpaceChar): TAB, VT (U+000B), FF, SP, NBSP (U+00A0), ZWNBSP
\* (U+FEFF) and the other space separators, of which the first is U+1680;
\* and the line terminators LF, CR, U+2028 and U+2029.
WhiteSpace ==
    {"\t", "", "\f", " ", " ", "﻿", " ", "\n", "\r"}
        \cup UnwritableSpaces \cup LineSeparators

RECURSIVE TrimStart(_)
TrimStart(str) ==
    IF str # <<>> /\ Head(str) \in WhiteSpace THEN TrimStart(Tail(str)) ELSE str

RECURSIVE TrimEnd(_)
TrimEnd(str) ==
    IF str # <<>> /\ str[Len(str)] \in WhiteSpace
    THEN TrimEnd(SubSeq(str, 1, Len(str) - 1))
    ELSE str

DigitChars == <<"0", "1", "2", "3", "4", "5", "6", "7", "8", "9",
                "a", "b", "c", "d", "e", "f">>
UpperDigitChars == <<"0", "1", "2", "3", "4", "5", "6", "7", "8", "9",
                     "A", "B", "C", "D", "E", "F">>

IsDigit(ch, radix) ==
    \E d \in 1..radix : ch \in {DigitChars[d], UpperDigitChars[d]}

DigitValue(ch) ==
    (CHOOSE d \in 1..16 : ch \in {DigitChars[d], UpperDigitChars[d]}) - 1

\* One digit of the radix at least, and digits only.
AllDigits(str, radix) ==
    str # <<>> /\ \A i \in DOMAIN str : IsDigit(str[i], radix)

RECURSIVE DigitsValue(_, _)
DigitsValue(str, radix) ==
    IF str = <<>> THEN 0
    ELSE DigitsValue(SubSeq(str, 1, Len(str) - 1), radix) * radix
         + DigitValue(str[Len(str)])

\* Index of the first character of str that is in chars, 0 when there is none.
IndexOf(str, chars) ==
    IF \E i \in DOMAIN str : str[i] \in chars
    THEN CHOOSE i \in DOMAIN str :
             str[i] \in chars /\ \A j \in 1..(i - 1) : str[j] \notin chars
    ELSE 0

\* The radix a prefix 0x, 0o or 0b announces, 10 without such a prefix.
Radix(str) ==
    IF Len(str) >= 2 /\ str[1] = "0"
    THEN CASE str[2] \in {"x", "X"} -> 16
           [] str[2] \in {"o", "O"} -> 8
           [] str[2] \in {"b", "B"} -> 2
           [] OTHER -> 10
    ELSE 10

\* An unsigned decimal literal: digits, "." and digits (one of the two digit
\* runs may be empty, not both), then an optional exponent e or E with an
\* optional sign and at least one digit.  ok is FALSE for any other string;
\* otherwise the value is num/den.
DecimalLiteral(str) ==
    LET e == IndexOf(str, {"e", "E"})
        mantissa == IF e = 0 THEN str ELSE SubSeq(str, 1, e - 1)
        exponent == IF e = 0 THEN <<>> ELSE SubSeq(str, e + 1, Len(str))
        signed == exponent # <<>> /\ Head(exponent) \in {"+", "-"}
        negative == signed /\ Head(exponent) = "-"
        expDigits == IF signed THEN Tail(exponent) ELSE exponent
        dot == IndexOf(mantissa, {"."})
        whole == IF dot = 0 THEN mantissa ELSE SubSeq(mantissa, 1, dot - 1)
        part == IF dot = 0 THEN <<>>
                ELSE SubSeq(mantissa, dot + 1, Len(mantissa))
        ok == /\ AllDigits(whole \o part, 10)
              /\ e # 0 => AllDigits(expDigits, 10)
        scale == Power(10, DigitsValue(expDigits, 10))
    IN IF ~ok THEN [ok |-> FALSE]
       ELSE [ok |-> TRUE,
             num |-> DigitsValue(whole \o part, 10)
                     * (IF negative THEN 1 ELSE scale),
             den |-> Power(10, Len(part)) * (IF negative THEN scale ELSE 1)]

\* Number(str), lines 59-60: the string is trimmed; the empty string is 0; a
\* literal with prefix 0x, 0o or 0b is an integer of that radix and takes no
\* sign; otherwise an optional sign and Infinity or a decimal literal;
\* anything else is NaN.  -0 is 0: no comparison of the program tells them
\* apart.  Exact where the value fits the integers of the model checker and a
\* double holds it exactly.
Number(str) ==
    LET t == TrimEnd(TrimStart(str))
        signed == t # <<>> /\ Head(t) \in {"+", "-"}
        sign == IF signed /\ Head(t) = "-" THEN -1 ELSE 1
        body == IF signed THEN Tail(t) ELSE t
        literal == DecimalLiteral(body)
    IN IF t = <<>> THEN Num(0)
       ELSE IF Radix(t) # 10
       THEN IF AllDigits(SubSeq(t, 3, Len(t)), Radix(t))
            THEN Num(DigitsValue(SubSeq(t, 3, Len(t)), Radix(t)))
            ELSE NaN
       ELSE IF body = <<"I", "n", "f", "i", "n", "i", "t", "y">>
       THEN Infinity(sign)
       ELSE IF literal.ok THEN Rational(sign * literal.num, literal.den)
       ELSE NaN

\* Math.round of a value given in half pixels: halves round towards +infinity.
MathRound(v2) == (v2 + 1) \div 2

\* Math.abs on integers.
MathAbs(n) == IF n < 0 THEN -n ELSE n

\* Math.floor(256 * Math.random()) for a sample given in thousandths.
RandomChannel(sample) == (256 * sample) \div 1000

randomColorString(rnd) ==
    "rgb(" \o ToString(RandomChannel(rnd[1])) \o ","
           \o ToString(RandomChannel(rnd[2])) \o ","
           \o ToString(RandomChannel(rnd[3])) \o ")"

-----------------------------------------------------------------------------
(* The environment of the page. *)

\* canvas.getBoundingClientRect(), in half pixels.
BoundingClientRect == [left2 |-> 16, top2 |-> 16]

\* The canvas element's size.
canvas == [width |-> 300, height |-> 150]

\* The transform and the saved-state stack of a fresh 2D context: the
\* transform is the sequence of translations and scalings applied so far.
InitialGraphicsState == [transform |-> <<>>, saved |-> <<>>]

-----------------------------------------------------------------------------
(* Listener lists: EventTarget.addEventListener / removeEventListener. *)

Listener(type, fn) == [type |-> type, fn |-> fn]

HasListener(ls, type, fn) == \E i \in DOMAIN ls : ls[i] = Listener(type, fn)

\* A registration that adds the listener again when it is already in the list.
addEventListener_Appends(ls, type, fn) == Append(ls, Listener(type, fn))

\* A listener already in the list (same type, callback and capture) is not
\* added twice.
addEventListener(ls, type, fn) ==
    IF HasListener(ls, type, fn) THEN ls ELSE Append(ls, Listener(type, fn))

removeEventListener(ls, type, fn) ==
    SelectSeq(ls, LAMBDA l : l # Listener(type, fn))

-----------------------------------------------------------------------------
(* Drawing commands.  A command that paints records the fill style it      *)
(* paints with.                                                            *)

FillRect(x, y, w, h, style) ==
    [op |-> "fillRect", x |-> x, y |-> y, w |-> w, h |-> h, fillStyle |-> style]
StrokeRect(x, y, w, h) ==
    [op |-> "strokeRect", x |-> x, y |-> y, w |-> w, h |-> h]
BeginPath == [op |-> "beginPath"]
Fill(style) == [op |-> "fill", fillStyle |-> style]
Stroke == [op |-> "stroke"]

\* The point (cx + size*cos(i*2*PI/n), cy + size*sin(i*2*PI/n)), kept symbolic.
PolarPoint(cx, cy, size, i, n) ==
    [cx |-> cx, cy |-> cy, size |-> size, i |-> i, n |-> n]
MoveTo(p) == [op |-> "moveTo", to |-> p]
LineTo(p) == [op |-> "lineTo", to |-> p]

\* Number of stamps in a command log: every stamp ends in one stroke command.
StampCount(log) ==
    Cardinality({i \in DOMAIN log : log[i].op \in {"strokeRect", "stroke"}})

-----------------------------------------------------------------------------
(* doMouseMove, lines 64-131. *)

\* Surface-local pointer position of an event: lines 48-50 and 71-73.
LocalX(evt) == MathRound(evt.clientX2 - BoundingClientRect.left2)
LocalY(evt) == MathRound(evt.clientY2 - BoundingClientRect.top2)

\* A debounce that lets a move of distance 2 through.
TooClose_Within2(x, y, px, py) ==
    /\ IsNum(px) /\ IsNum(py)
    /\ MathAbs(x - px.val) + MathAbs(y - py.val) < 2

\* Line 78: Math.abs(x - prevX) + Math.abs(y - prevY) < 3.  With prevX or
\* prevY undefined the sum is NaN and the comparison is false.
TooClose(x, y, px, py) ==
    /\ IsNum(px) /\ IsNum(py)
    /\ MathAbs(x - px.val) + MathAbs(y - py.val) < 3

\* The switch with the break of case 1 missing: red falls through to green.
ResolveFillStyle_Fallthrough(choice, style, rnd) ==
    IF choice = Num(0) THEN randomColorString(rnd)
    ELSE IF choice = Num(1) THEN "green"
    ELSE IF choice = Num(2) THEN "green"
    ELSE IF choice = Num(3) THEN "blue"
    ELSE IF choice = Num(4) THEN "yellow"
    ELSE style

\* Lines 82-98: the switch on colorChoice; no case matches, no assignment.
ResolveFillStyle(choice, style, rnd) ==
    IF choice = Num(0) THEN randomColorString(rnd)
    ELSE IF choice = Num(1) THEN "red"
    ELSE IF choice = Num(2) THEN "green"
    ELSE IF choice = Num(3) THEN "blue"
    ELSE IF choice = Num(4) THEN "yellow"
    ELSE style

numOfVertices == 13
size == 50

\* The loop with i < numOfVertices as its test: one lineTo fewer.
RECURSIVE StarLines_Exclusive(_, _, _)
StarLines_Exclusive(x, y, from) ==
    IF from >= numOfVertices THEN <<>>
    ELSE <<LineTo(PolarPoint(x, y, size, from, numOfVertices))>>
         \o StarLines_Exclusive(x, y, from + 1)

\* Lines 116-121: the lineTo commands of the star, i = from..numOfVertices.
RECURSIVE StarLines(_, _, _)
StarLines(x, y, from) ==
    IF from > numOfVertices THEN <<>>
    ELSE <<LineTo(PolarPoint(x, y, size, from, numOfVertices))>>
         \o StarLines(x, y, from + 1)

\* Lines 106-126: the star.  The moveTo of lines 111-113 is at angle 0.
StarPath(x, y, style) ==
    <<BeginPath, MoveTo(PolarPoint(x, y, size, 0, numOfVertices))>>
    \o StarLines(x, y, 0)
    \o <<Fill(style), Stroke>>

\* A switch whose unmatched shape falls back to the square.
PaintShape_DefaultSquare(shape, x, y, style) ==
    IF shape = Num(1) THEN StarPath(x, y, style)
    ELSE <<FillRect(x - 20, y - 20, 40, 40, style),
           StrokeRect(x - 20, y - 20, 40, 40)>>

\* A square with its corner, not its centre, on the pointer.
PaintShape_CornerAt(shape, x, y, style) ==
    IF shape = Num(0)
    THEN <<FillRect(x, y, 40, 40, style), StrokeRect(x, y, 40, 40)>>
    ELSE IF shape = Num(1) THEN StarPath(x, y, style)
    ELSE <<>>

\* Lines 100-127: the switch on shapeType, as the commands it issues; no case
\* matches, no command.
PaintShape(shape, x, y, style) ==
    IF shape = Num(0)
    THEN <<FillRect(x - 20, y - 20, 40, 40, style),
           StrokeRect(x - 20, y - 20, 40, 40)>>
    ELSE IF shape = Num(1) THEN StarPath(x, y, style)
    ELSE <<>>

\* A stamp that reads the two controls again instead of the frozen selections.
Stamp_ReadsControls(s, x, y, rnd) ==
    LET style == ResolveFillStyle(Number(s.colorValue), s.fillStyle, rnd)
    IN [s EXCEPT !.fillStyle = style,
                 !.surface = @ \o PaintShape(Number(s.shapeValue), x, y, style),
                 !.prevX = Num(x),
                 !.prevY = Num(y)]

\* Lines 82-130: one stamp at (x, y).
Stamp(s, x, y, rnd) ==
    LET style == ResolveFillStyle(s.colorChoice, s.fillStyle, rnd)
    IN [s EXCEPT !.fillStyle = style,
                 !.surface = @ \o PaintShape(s.shapeType, x, y, style),
                 !.prevX = Num(x),
                 !.prevY = Num(y)]

\* A move handler that follows the pointer on the moves it discards.
doMouseMove_TracksPointer(s, evt, rnd) ==
    IF ~s.dragging THEN s
    ELSE LET x == LocalX(evt)
             y == LocalY(evt)
         IN IF TooClose(x, y, s.prevX, s.prevY)
            THEN [s EXCEPT !.prevX = Num(x), !.prevY = Num(y)]
            ELSE Stamp(s, x, y, rnd)

doMouseMove(s, evt, rnd) ==
    IF ~s.dragging THEN s
    ELSE LET x == LocalX(evt)
             y == LocalY(evt)
         IN IF TooClose(x, y, s.prevX, s.prevY) THEN s
            ELSE Stamp(s, x, y, rnd)

-----------------------------------------------------------------------------
(* doMouseUp, lines 133-141.  Line 140 names doMouseMove as the callback   *)
(* of the "mouseup" listener it removes.                                   *)

\* A pointer-up that leaves the move listener registered.
doMouseUp_KeepsMoveListener(s) ==
    IF ~s.dragging THEN s
    ELSE [s EXCEPT !.dragging = FALSE,
                   !.docListeners =
                       removeEventListener(@, "mouseup", "doMouseMove")]

\* A pointer-up that removes the listeners and leaves the drag flag set.
doMouseUp_StaysDragging(s) ==
    IF ~s.dragging THEN s
    ELSE [s EXCEPT !.docListeners =
                       removeEventListener(
                           removeEventListener(@, "mousemove", "doMouseMove"),
                           "mouseup", "doMouseMove")]

doMouseUp(s) ==
    IF ~s.dragging THEN s
    ELSE [s EXCEPT !.dragging = FALSE,
                   !.docListeners =
                       removeEventListener(
                           removeEventListener(@, "mousemove", "doMouseMove"),
                           "mouseup", "doMouseMove")]

-----------------------------------------------------------------------------
(* doMouseDown, lines 38-62. *)

\* A drag start that records the start position only.
StartDrag_NoPrev(s, x, y) ==
    [s EXCEPT !.dragging = TRUE,
              !.startX = Num(x),
              !.startY = Num(y),
              !.docListeners =
                  addEventListener(
                      addEventListener(@, "mousemove", "doMouseMove"),
                      "mouseup", "doMouseUp")]

\* A drag start that registers the up listener only.
StartDrag_NoMoveListener(s, x, y) ==
    [s EXCEPT !.dragging = TRUE,
              !.startX = Num(x), !.prevX = Num(x),
              !.startY = Num(y), !.prevY = Num(y),
              !.docListeners = addEventListener(@, "mouseup", "doMouseUp")]

\* Lines 51-57: the drag starts at (x, y).
StartDrag(s, x, y) ==
    [s EXCEPT !.dragging = TRUE,
              !.startX = Num(x), !.prevX = Num(x),
              !.startY = Num(y), !.prevY = Num(y),
              !.docListeners =
                  addEventListener(
                      addEventListener(@, "mousemove", "doMouseMove"),
                      "mouseup", "doMouseUp")]

\* Lines 59-60: the selections are read from the two controls.
ReadSelections(s) ==
    [s EXCEPT !.colorChoice = Number(s.colorValue),
              !.shapeType = Number(s.shapeValue)]

\* A pointer-down without the test of line 41.
doMouseDown_NoDragGuard(s, evt) ==
    IF evt.button # 0 THEN s
    ELSE ReadSelections(StartDrag(s, LocalX(evt), LocalY(evt)))

doMouseDown(s, evt) ==
    IF s.dragging THEN s
    ELSE IF evt.button # 0 THEN s
    ELSE ReadSelections(StartDrag(s, LocalX(evt), LocalY(evt)))

-----------------------------------------------------------------------------
(* Event delivery: EventTarget.dispatchEvent runs, in registration order,  *)
(* the listeners registered for the event's type when delivery starts and  *)
(* still registered when their turn comes.                                 *)

NoCalls == [doMouseDown |-> 0, doMouseMove |-> 0, doMouseUp |-> 0]

\* The callback fn applied to the program state s.
Call(fn, s, evt, rnd) ==
    CASE fn = "doMouseDown" -> doMouseDown(s, evt)
      [] fn = "doMouseMove" -> doMouseMove(s, evt, rnd)
      [] fn = "doMouseUp" -> doMouseUp(s)

StillRegistered(target, s, l) ==
    IF target = "document" THEN HasListener(s.docListeners, l.type, l.fn)
    ELSE HasListener(s.canvasListeners, l.type, l.fn)

RECURSIVE RunListeners(_, _, _, _, _, _)
RunListeners(target, ls, i, run, evt, rnd) ==
    IF i > Len(ls) THEN run
    ELSE IF ls[i].type = evt.type /\ StillRegistered(target, run.s, ls[i])
    THEN RunListeners(target, ls, i + 1,
             [s |-> Call(ls[i].fn, run.s, evt, rnd),
              calls |-> [run.calls EXCEPT ![ls[i].fn] = @ + 1]],
             evt, rnd)
    ELSE RunListeners(target, ls, i + 1, run, evt, rnd)

\* The program state as one record, for the handlers to transform.
State ==
    [dragging |-> dragging, startX |-> startX, startY |-> startY,
     prevX |-> prevX, prevY |-> prevY,
     colorChoice |-> colorChoice, shapeType |-> shapeType,
     canvasListeners |-> canvasListeners, docListeners |-> docListeners,
     colorValue |-> colorValue, shapeValue |-> shapeValue,
     fillStyle |-> fillStyle, surface |-> surface]

Dispatch(target, evt, rnd) ==
    RunListeners(target,
                 IF target = "document" THEN docListeners ELSE canvasListeners,
                 1, [s |-> State, calls |-> NoCalls], evt, rnd)

\* The variables take the values the delivery of evt leaves.
Deliver(run, evt) ==
    /\ dragging' = run.s.dragging
    /\ startX' = run.s.startX
    /\ startY' = run.s.startY
    /\ prevX' = run.s.prevX
    /\ prevY' = run.s.prevY
    /\ colorChoice' = run.s.colorChoice
    /\ shapeType' = run.s.shapeType
    /\ canvasListeners' = run.s.canvasListeners
    /\ docListeners' = run.s.docListeners
    /\ colorValue' = run.s.colorValue
    /\ shapeValue' = run.s.shapeValue
    /\ fillStyle' = run.s.fillStyle
    /\ surface' = run.s.surface
    /\ event' = evt
    /\ calls' = run.calls
    /\ UNCHANGED <<gstate, page>>
    /\ StampCount(surface') <= MaxStamps

MouseEvent(type, x2, y2, button) ==
    [type |-> type, clientX2 |-> x2, clientY2 |-> y2, button |-> button]

-----------------------------------------------------------------------------
(* clear, lines 18-21: a function of the page's script, for the page to   *)
(* call at any time.                                                       *)

ClearRect(x, y, w, h) == [op |-> "clearRect", x |-> x, y |-> y, w |-> w, h |-> h]

ClearCount(log) == Cardinality({i \in DOMAIN log : log[i].op = "clearRect"})

\* clear() throws before it draws: canvas is undefined until init() has run
\* and null when the page has no canvas element (line 19 calls a method of
\* it); getContext throws (line 19); or getContext returns null (line 20
\* calls a method of null).
ClearThrows(pg) ==
    pg.phase = "loading" \/ ~pg.canvas \/ pg.getContext # "context"

\* The page calls clear().
Clear ==
    /\ surface' = IF ClearThrows(page) THEN surface
                  ELSE Append(surface, ClearRect(0, 0, canvas.width, canvas.height))
    /\ event' = [type |-> "call", fn |-> "clear", args |-> <<>>]
    /\ calls' = NoCalls
    /\ UNCHANGED <<dragging, startX, startY, prevX, prevY, colorChoice,
                   shapeType, canvasListeners, docListeners, colorValue,
                   shapeValue, fillStyle, gstate, page>>
    /\ ClearCount(surface') <= MaxClears

-----------------------------------------------------------------------------
(* Init: the page after init() (lines 238-252) has run with a canvas and a *)
(* 2D context: installMouseHandler has registered doMouseDown on the       *)
(* canvas (line 143), the closure variables of lines 31-36 hold their      *)
(* initial values, and the canvas is filled white (lines 250-251).  The    *)
(* two controls hold any of their values.                                  *)

InitWith(colors, shapes) ==
    /\ dragging = FALSE
    /\ startX = Undefined /\ startY = Undefined
    /\ prevX = Undefined /\ prevY = Undefined
    /\ colorChoice = Undefined
    /\ shapeType = Undefined
    /\ canvasListeners = <<Listener("mousedown", "doMouseDown")>>
    /\ docListeners = <<>>
    /\ colorValue \in colors
    /\ shapeValue \in shapes
    /\ fillStyle = "white"
    /\ surface = <<FillRect(0, 0, canvas.width, canvas.height, "white")>>
    /\ event = [type |-> "load"]
    /\ calls = NoCalls
    /\ gstate = InitialGraphicsState
    /\ page = [canvas |-> TRUE, getContext |-> "context", phase |-> "ready",
               fallback |-> 0]

\* The user presses a mouse button over the canvas.
MouseDown(points) ==
    \E p2 \in points, b \in Buttons :
        LET evt == MouseEvent("mousedown", p2[1], p2[2], b)
        IN Deliver(Dispatch("canvas", evt, <<0, 0, 0>>), evt)

\* The user moves the mouse anywhere in the document.
MouseMove(points) ==
    \E p2 \in points, rnd \in RandomTriples :
        LET evt == MouseEvent("mousemove", p2[1], p2[2], 0)
        IN Deliver(Dispatch("document", evt, rnd), evt)

\* The user releases the mouse button anywhere in the document.
MouseUp ==
    \E p2 \in {<<116, 116>>} :
        LET evt == MouseEvent("mouseup", p2[1], p2[2], 0)
        IN Deliver(Dispatch("document", evt, <<0, 0, 0>>), evt)

\* The user picks another entry of the colour control.
SelectColor(colors) ==
    \E v \in colors :
        /\ v # colorValue
        /\ colorValue' = v
        /\ event' = [type |-> "change", target |-> "colorChoice"]
        /\ calls' = NoCalls
        /\ UNCHANGED <<dragging, startX, startY, prevX, prevY, colorChoice,
                       shapeType, canvasListeners, docListeners, shapeValue,
                       fillStyle, surface, gstate, page>>

\* The user picks another entry of the shape control.
SelectShape(shapes) ==
    \E v \in shapes :
        /\ v # shapeValue
        /\ shapeValue' = v
        /\ event' = [type |-> "change", target |-> "shapeType"]
        /\ calls' = NoCalls
        /\ UNCHANGED <<dragging, startX, startY, prevX, prevY, colorChoice,
                       shapeType, canvasListeners, docListeners, colorValue,
                       fillStyle, surface, gstate, page>>

\* The drag protocol, with a colour and a shape outside the enumerated sets.
Init == InitWith(ColorValues, ShapeValues)

Next ==
    \/ MouseDown(ClientPoints2)
    \/ MouseMove(ClientPoints2)
    \/ MouseUp
    \/ SelectColor(ColorValues)
    \/ SelectShape(ShapeValues)

Spec == Init /\ [][Next]_vars

\* The four named colours, stamping squares.
InitPalette == InitWith(PaletteColorValues, PaletteShapeValues)

NextPalette ==
    \/ MouseDown(FarClientPoints2)
    \/ MouseMove(FarClientPoints2)
    \/ MouseUp
    \/ SelectColor(PaletteColorValues)

SpecPalette == InitPalette /\ [][NextPalette]_vars

\* Two colours and the two shapes, all inside the enumerated sets.
InitShapes == InitWith(InRangeColorValues, InRangeShapeValues)

NextShapes ==
    \/ MouseDown(FarClientPoints2)
    \/ MouseMove(FarClientPoints2)
    \/ MouseUp
    \/ SelectColor(InRangeColorValues)
    \/ SelectShape(InRangeShapeValues)

SpecShapes == InitShapes /\ [][NextShapes]_vars

-----------------------------------------------------------------------------
(* addGraphicsContextExtras, lines 168-229: the helpers it adds to the    *)
(* context.  A context c is its command log, its transform and saved      *)
(* states, and its fill style.                                            *)

ClosePath == [op |-> "closePath"]
Save == [op |-> "save"]
Restore == [op |-> "restore"]
Translate(x, y) == [op |-> "translate", x |-> x, y |-> y]
Scale(sx, sy) == [op |-> "scale", x |-> sx, y |-> sy]
\* arc(x, y, r, 0, 2 * Math.PI, false), with the transform it is drawn under.
FullArc(x, y, r, ctm) ==
    [op |-> "arc", x |-> x, y |-> y, r |-> r, start |-> 0, end |-> "2*PI",
     counterclockwise |-> FALSE, transform |-> ctm]
Point(x, y) == [x |-> x, y |-> y]

Context == [log |-> surface, gstate |-> gstate, fillStyle |-> fillStyle]

Emit(c, cmd) == [c EXCEPT !.log = Append(@, cmd)]

\* this.save(): the current transform is pushed.
CtxSave(c) ==
    [Emit(c, Save) EXCEPT !.gstate.saved = Append(@, c.gstate.transform)]

\* this.restore(): the transform saved last is popped; nothing saved, no effect.
CtxRestore(c) ==
    IF c.gstate.saved = <<>> THEN Emit(c, Restore)
    ELSE [Emit(c, Restore) EXCEPT
            !.gstate.transform = c.gstate.saved[Len(c.gstate.saved)],
            !.gstate.saved = SubSeq(@, 1, Len(@) - 1)]

CtxTranslate(c, x, y) ==
    [Emit(c, Translate(x, y)) EXCEPT
        !.gstate.transform = Append(@, Translate(x, y))]

CtxScale(c, sx, sy) ==
    [Emit(c, Scale(sx, sy)) EXCEPT !.gstate.transform = Append(@, Scale(sx, sy))]

CtxArc(c, x, y, r) == Emit(c, FullArc(x, y, r, c.gstate.transform))
CtxFill(c) == Emit(c, Fill(c.fillStyle))
CtxStroke(c) == Emit(c, Stroke)

\* Lines 169-174.
strokeLine(c, x1, y1, x2, y2) ==
    CtxStroke(Emit(Emit(Emit(c, BeginPath),
                        MoveTo(Point(Num(x1), Num(y1)))),
                   LineTo(Point(Num(x2), Num(y2)))))

\* Lines 175-179.
fillCircle(c, x, y, r) == CtxFill(CtxArc(Emit(c, BeginPath), x, y, r))

\* Lines 180-184.
strokeCircle(c, x, y, radius) ==
    CtxStroke(CtxArc(Emit(c, BeginPath), x, y, radius))

\* arguments[i] (from 0): undefined past the end of the argument list.
Argument(args, i) == IF i + 1 \in DOMAIN args THEN Num(args[i + 1]) ELSE Undefined

\* A loop with i < arguments.length as its test: it reads arguments[i + 1]
\* past the end of an odd argument list.
RECURSIVE PolyLines_ReadsPastEnd(_, _, _)
PolyLines_ReadsPastEnd(c, args, i) ==
    IF i < Len(args)
    THEN PolyLines_ReadsPastEnd(
             Emit(c, LineTo(Point(Argument(args, i), Argument(args, i + 1)))),
             args, i + 2)
    ELSE c

\* Lines 190-192 and 201-203: for (i = 2; i + 1 < arguments.length; i += 2).
RECURSIVE PolyLines(_, _, _)
PolyLines(c, args, i) ==
    IF i + 1 < Len(args)
    THEN PolyLines(
             Emit(c, LineTo(Point(Argument(args, i), Argument(args, i + 1)))),
             args, i + 2)
    ELSE c

\* Lines 188-193 and 199-204: the closed path through the vertices.
PolyPath(c, args) ==
    Emit(PolyLines(Emit(Emit(c, BeginPath),
                        MoveTo(Point(Argument(args, 0), Argument(args, 1)))),
                   args, 2),
         ClosePath)

\* fillPoly with the minimum of strokePoly.
fillPoly_MinimumFour(c, args) ==
    IF Len(args) < 4 THEN c ELSE CtxFill(PolyPath(c, args))

\* Lines 185-195.
fillPoly(c, args) ==
    IF Len(args) < 6 THEN c ELSE CtxFill(PolyPath(c, args))

\* Lines 196-206.
strokePoly(c, args) ==
    IF Len(args) < 4 THEN c ELSE CtxStroke(PolyPath(c, args))

\* Lines 208-213 and 217-222: the unit circle under translate and scale,
\* between save and restore.
OvalPath(c, x, y, horizontalRadius, verticalRadius) ==
    CtxRestore(
        CtxArc(
            Emit(CtxScale(CtxTranslate(CtxSave(c), x, y),
                          horizontalRadius, verticalRadius),
                 BeginPath),
            0, 0, 1))

\* An oval filled before the transform is restored.
fillOval_PaintsBeforeRestore(c, x, y, horizontalRadius, verticalRadius) ==
    CtxRestore(
        CtxFill(
            CtxArc(
                Emit(CtxScale(CtxTranslate(CtxSave(c), x, y),
                              horizontalRadius, verticalRadius),
                     BeginPath),
                0, 0, 1)))

\* Lines 207-215.
fillOval(c, x, y, horizontalRadius, verticalRadius) ==
    CtxFill(OvalPath(c, x, y, horizontalRadius, verticalRadius))

\* Lines 216-224.
strokeOval(c, x, y, horizontalRadius, verticalRadius) ==
    CtxStroke(OvalPath(c, x, y, horizontalRadius, verticalRadius))

\* Paint commands of the helpers in a command log.
PaintCount(log) ==
    Cardinality({i \in DOMAIN log : log[i].op \in {"fill", "stroke"}})

\* A script calls the helper fn of the context with the arguments args.
HelperCall(fn, args, c) ==
    /\ surface' = c.log
    /\ gstate' = c.gstate
    /\ fillStyle' = c.fillStyle
    /\ event' = [type |-> "call", fn |-> fn, args |-> args]
    /\ calls' = NoCalls
    /\ UNCHANGED <<dragging, startX, startY, prevX, prevY, colorChoice,
                   shapeType, canvasListeners, docListeners, colorValue,
                   shapeValue, page>>
    /\ PaintCount(surface') <= MaxStamps

StrokeLineCall ==
    \E a \in LineArguments :
        HelperCall("strokeLine", a, strokeLine(Context, a[1], a[2], a[3], a[4]))

FillCircleCall ==
    \E a \in CircleArguments :
        HelperCall("fillCircle", a, fillCircle(Context, a[1], a[2], a[3]))

StrokeCircleCall ==
    \E a \in CircleArguments :
        HelperCall("strokeCircle", a, strokeCircle(Context, a[1], a[2], a[3]))

FillPolyCall ==
    \E n \in 0..MaxPolyArgs :
        LET args == SubSeq(PolyNumbers, 1, n)
        IN HelperCall("fillPoly", args, fillPoly(Context, args))

StrokePolyCall ==
    \E n \in 0..MaxPolyArgs :
        LET args == SubSeq(PolyNumbers, 1, n)
        IN HelperCall("strokePoly", args, strokePoly(Context, args))

FillOvalCall ==
    \E a \in OvalArguments :
        HelperCall("fillOval", a, fillOval(Context, a[1], a[2], a[3], a[4]))

StrokeOvalCall ==
    \E a \in OvalArguments :
        HelperCall("strokeOval", a, strokeOval(Context, a[1], a[2], a[3], a[4]))

\* The drawing helpers, called on the context of the initialised page.
InitExtras == InitWith({<<"1">>}, {<<"0">>})

NextExtras ==
    \/ StrokeLineCall
    \/ FillCircleCall
    \/ StrokeCircleCall
    \/ FillPolyCall
    \/ StrokePolyCall
    \/ FillOvalCall
    \/ StrokeOvalCall

SpecExtras == InitExtras /\ [][NextExtras]_vars

-----------------------------------------------------------------------------
(* init, lines 238-252, run when the page has loaded.  The page is what   *)
(* init() finds (canvas: the element with id "canvas" exists; getContext:  *)
(* what canvas.getContext("2d") does: it returns a "context", returns      *)
(* "null", or "throws") and what init() has done (phase; fallback: how     *)
(* often the message of lines 243-245 was written).                        *)

Pages ==
    {[canvas |-> FALSE, getContext |-> "context", phase |-> "loading", fallback |-> 0]}
    \cup {[canvas |-> TRUE, getContext |-> g, phase |-> "loading", fallback |-> 0] :
            g \in {"context", "null", "throws"}}

\* Lines 239-247: the try block throws when canvas is null (line 241 calls a
\* method of null) or when getContext throws.
AcquisitionThrows(pg) == ~pg.canvas \/ pg.getContext = "throws"

\* Line 248: addGraphicsContextExtras(null) assigns a property of null, a
\* TypeError nothing catches; init() ends there.
ExtrasThrow(pg) == pg.canvas /\ pg.getContext = "null"

\* The page before init() has run: nothing is installed or painted.
InitLoading(colors, shapes) ==
    /\ dragging = FALSE
    /\ startX = Undefined /\ startY = Undefined
    /\ prevX = Undefined /\ prevY = Undefined
    /\ colorChoice = Undefined
    /\ shapeType = Undefined
    /\ canvasListeners = <<>>
    /\ docListeners = <<>>
    /\ colorValue \in colors
    /\ shapeValue \in shapes
    /\ fillStyle = "#000000"
    /\ surface = <<>>
    /\ event = [type |-> "none"]
    /\ calls = NoCalls
    /\ gstate = InitialGraphicsState
    /\ page \in Pages

\* The page has loaded: init() runs, once.
LoadPage ==
    /\ page.phase = "loading"
    /\ event' = [type |-> "load"]
    /\ calls' = NoCalls
    /\ IF AcquisitionThrows(page)
       THEN /\ page' = [page EXCEPT !.phase = "failed", !.fallback = @ + 1]
            /\ UNCHANGED <<canvasListeners, fillStyle, surface>>
       ELSE IF ExtrasThrow(page)
       THEN /\ page' = [page EXCEPT !.phase = "crashed"]
            /\ UNCHANGED <<canvasListeners, fillStyle, surface>>
       ELSE /\ page' = [page EXCEPT !.phase = "ready"]
            /\ canvasListeners' =
                   addEventListener(canvasListeners, "mousedown", "doMouseDown")
            /\ fillStyle' = "white"
            /\ surface' = Append(surface,
                              FillRect(0, 0, canvas.width, canvas.height, "white"))
    /\ UNCHANGED <<dragging, startX, startY, prevX, prevY, colorChoice,
                   shapeType, docListeners, colorValue, shapeValue, gstate>>

\* The page from before init(), whatever init() finds.
InitPage == InitLoading(ColorValues, ShapeValues)

NextPage ==
    \/ LoadPage
    \/ Clear
    \/ MouseDown(ClientPoints2)
    \/ MouseMove(ClientPoints2)
    \/ MouseUp
    \/ SelectColor(ColorValues)
    \/ SelectShape(ShapeValues)

SpecPage == InitPage /\ [][NextPage]_vars

-----------------------------------------------------------------------------
(* Vocabulary of the properties. *)

\* Surface-local position of an event, as the handlers leave it in prevX/prevY.
EventPoint(e) == <<Num(LocalX(e)), Num(LocalY(e))>>

\* Manhattan distance of an event's position from (px, py).
Manhattan(e, px, py) ==
    MathAbs(LocalX(e) - px.val) + MathAbs(LocalY(e) - py.val)

\* The listeners a drag registers that are on the document.
DragListeners(ls) ==
    {i \in DOMAIN ls : ls[i].type \in {"mousemove", "mouseup"}}

\* This step delivers a move event to a controller that is Dragging.
MoveWhileDragging == event'.type = "mousemove" /\ dragging

\* ... at Manhattan distance >= 3 from lastPosition.
QualifyingMove ==
    MoveWhileDragging /\ Manhattan(event', prevX, prevY) >= 3

\* This step delivers an event of the pointer or of a control (and is not the
\* page calling init(), clear() or a drawing helper).
UserEvent == event'.type \in {"mousedown", "mousemove", "mouseup", "change"}

\* The commands this step adds to the surface.
NewCommands == SubSeq(surface', Len(surface) + 1, Len(surface'))

\* The enumerated colours {0: Random, 1: Red, ..., 4: Yellow} and shapes
\* {0: Square, 1: Star}.
ColorInRange(c) == \E k \in 0..4 : c = Num(k)
ShapeInRange(c) == \E k \in 0..1 : c = Num(k)
NamedColor == <<"red", "green", "blue", "yellow">>

\* The index an entry of a select control stands for.
ControlIndex(v) ==
    CASE v = <<"0">> -> Num(0) [] v = <<"1">> -> Num(1) [] v = <<"2">> -> Num(2)
      [] v = <<" ", "3">> -> Num(3) [] v = <<"0", "4">> -> Num(4)
      [] v = <<"1", "0">> -> Num(10)

-----------------------------------------------------------------------------
(* C1 *)

\* C1: in every Idle state no move listener and no up listener is registered
\* on the document.
C1_NoDragListenerWhenIdle ==
    ~dragging => DragListeners(docListeners) = {}

-----------------------------------------------------------------------------
(* C2 *)

\* C2: a pointer-down with a non-primary button received while Idle leaves the
\* controller Idle, leaves startPosition, lastPosition and the frozen
\* selections unchanged, and no move or up listener is registered after it.
C2_NonPrimaryDownWhileIdle ==
    [][(event'.type = "mousedown" /\ event'.button # 0 /\ ~dragging)
        => /\ ~dragging'
           /\ UNCHANGED <<startX, startY, prevX, prevY, colorChoice, shapeType>>
           /\ DragListeners(docListeners') = {}]_vars

-----------------------------------------------------------------------------
(* C3 *)

\* C3: a move event received while Dragging at Manhattan distance < 3 from
\* lastPosition paints nothing, leaves the fill style and leaves lastPosition.
C3_SmallMoveDiscarded ==
    [][(MoveWhileDragging /\ Manhattan(event', prevX, prevY) < 3)
        => /\ surface' = surface
           /\ fillStyle' = fillStyle
           /\ prevX' = prevX /\ prevY' = prevY]_vars

\* A move away from lastPosition was handled during a drag that stamps
\* squares, and lastPosition is not the event's position.
C3_Witness ==
    /\ event.type = "mousemove" /\ calls.doMouseMove = 1
    /\ dragging /\ shapeType = Num(0)
    /\ EventPoint(event) # <<prevX, prevY>>

-----------------------------------------------------------------------------
(* C4 *)

\* C4: a move event delivered while Idle changes no pixel, leaves the fill
\* style and lastPosition, and runs no move listener of the controller.
C4_IdleMoveDoesNothing ==
    [][(event'.type = "mousemove" /\ ~dragging)
        => /\ surface' = surface
           /\ fillStyle' = fillStyle
           /\ prevX' = prevX /\ prevY' = prevY
           /\ calls'.doMouseMove = 0
           /\ ~dragging']_vars

\* A move was delivered while Idle, after a drag that painted.
C4_Witness ==
    /\ event.type = "mousemove" /\ ~dragging
    /\ IsNum(startX) /\ StampCount(surface) > 0
    /\ calls.doMouseMove = 0

-----------------------------------------------------------------------------
(* C5 *)

\* C5 as stated: lastPosition is defined if and only if active.
C5_LastPositionDefinedIffActive ==
    (IsNum(prevX) /\ IsNum(prevY)) <=> dragging

\* C5, amended: lastPosition is defined whenever active, it is undefined
\* before the first drag (no selection has been read yet) and defined ever
\* after, also once a pointer-up has ended the drag.
C5_LastPositionDefinedWhileActive ==
    /\ dragging => IsNum(prevX) /\ IsNum(prevY)
    /\ colorChoice = Undefined
         => ~dragging /\ prevX = Undefined /\ prevY = Undefined
    /\ colorChoice # Undefined => IsNum(prevX) /\ IsNum(prevY)
    /\ (event.type = "mouseup" /\ calls.doMouseUp = 1)
         => ~dragging /\ IsNum(prevX) /\ IsNum(prevY)

\* A pointer-up has ended a drag and lastPosition is still defined.
C5_Witness ==
    /\ event.type = "mouseup" /\ calls.doMouseUp = 1
    /\ ~dragging /\ IsNum(prevX) /\ IsNum(prevY)

-----------------------------------------------------------------------------
(* C6 *)

\* This step is the primary pointer-down that starts a drag.
DragStart == event'.type = "mousedown" /\ ~dragging /\ dragging'

\* C6: the selections are read from the controls at the pointer-down that
\* starts a drag and at no other step, and every stamp is painted with the
\* frozen selections, whatever the controls hold by then.
C6_SelectionsFrozenForDrag ==
    [][/\ DragStart => /\ colorChoice' = ControlIndex(colorValue)
                       /\ shapeType' = ControlIndex(shapeValue)
       /\ ~DragStart => UNCHANGED <<colorChoice, shapeType>>
       /\ QualifyingMove
            => /\ \A k \in 1..4 : colorChoice = Num(k)
                    => \A i \in DOMAIN NewCommands :
                         NewCommands[i].op \in {"fillRect", "fill"}
                           => NewCommands[i].fillStyle = NamedColor[k]
               /\ shapeType = Num(0) => NewCommands[1].op = "fillRect"
               /\ shapeType = Num(1) => NewCommands[1].op = "beginPath"]_vars

\* During a drag both controls hold other values than the frozen ones, and
\* the stamp at the pointer was painted with the frozen ones (red square).
C6_Witness ==
    /\ dragging /\ event.type = "mousemove" /\ calls.doMouseMove = 1
    /\ colorChoice = Num(1) /\ shapeType = Num(0)
    /\ colorValue = <<"2">> /\ shapeValue = <<"1">>
    /\ <<prevX, prevY>> = EventPoint(event) /\ <<prevX, prevY>> # <<startX, startY>>
    /\ StampCount(surface) = 1
    /\ surface[Len(surface) - 1].op = "fillRect"
    /\ surface[Len(surface) - 1].fillStyle = "red"

-----------------------------------------------------------------------------
(* C7 *)

\* C7 as stated: with the frozen colour or the frozen shape outside its
\* enumerated set, a qualifying move paints nothing and updates lastPosition.
C7_OutOfRangePaintsNothing ==
    [][(QualifyingMove
          /\ (~ColorInRange(colorChoice) \/ ~ShapeInRange(shapeType)))
        => /\ surface' = surface
           /\ <<prevX', prevY'>> = EventPoint(event')]_vars

\* C7, amended: with the frozen shape outside its set a qualifying move paints
\* nothing; with only the frozen colour outside its set the fill style is left
\* as it was and the shape is painted with it; lastPosition is updated in
\* both cases.
C7_UnmatchedShapePaintsNothing ==
    [][QualifyingMove
        => /\ ~ShapeInRange(shapeType) => surface' = surface
           /\ ~ColorInRange(colorChoice) => fillStyle' = fillStyle
           /\ (~ColorInRange(colorChoice) /\ shapeType = Num(0))
                => /\ Len(NewCommands) = 2
                   /\ NewCommands[1].op = "fillRect"
                   /\ NewCommands[1].fillStyle = fillStyle
           /\ (~ColorInRange(colorChoice) \/ ~ShapeInRange(shapeType))
                => <<prevX', prevY'>> = EventPoint(event')]_vars

\* A drag with a shape outside the set has moved lastPosition away from its
\* start, and no stamp was ever painted.
C7_Witness ==
    /\ dragging /\ event.type = "mousemove" /\ calls.doMouseMove = 1
    /\ shapeType = Num(2)
    /\ <<prevX, prevY>> # <<startX, startY>>
    /\ <<prevX, prevY>> = EventPoint(event)
    /\ StampCount(surface) = 0

-----------------------------------------------------------------------------
(* C8 *)

\* The path commands of a log all lie on the circle of radius 50 around (x, y).
PathCentredOn(log, x, y) ==
    \A i \in DOMAIN log :
        log[i].op \in {"moveTo", "lineTo"}
          => log[i].to.cx = x /\ log[i].to.cy = y /\ log[i].to.size = 50

\* C8: a qualifying move with in-range selections paints exactly one shape,
\* centred on the event's position, filled with the colour of the frozen
\* selection, and leaves lastPosition at that position.  Red and Square after
\* a down at (50,50) and a move to (50,55): one red 40x40 square with corner
\* (30,35), filled, then stroked.
C8_QualifyingMovePaintsOneShape ==
    [][(QualifyingMove /\ ColorInRange(colorChoice) /\ ShapeInRange(shapeType))
        => LET x == LocalX(event')
               y == LocalY(event')
               n == Len(NewCommands)
           IN /\ <<prevX', prevY'>> = <<Num(x), Num(y)>>
              /\ StampCount(surface') = StampCount(surface) + 1
              /\ \A k \in 1..4 : colorChoice = Num(k) => fillStyle' = NamedColor[k]
              /\ shapeType = Num(0)
                   => NewCommands =
                        <<[op |-> "fillRect", x |-> x - 20, y |-> y - 20,
                           w |-> 40, h |-> 40, fillStyle |-> fillStyle'],
                          [op |-> "strokeRect", x |-> x - 20, y |-> y - 20,
                           w |-> 40, h |-> 40]>>
              /\ shapeType = Num(1)
                   => /\ NewCommands[1].op = "beginPath"
                      /\ PathCentredOn(NewCommands, x, y)
                      /\ NewCommands[n - 1] = [op |-> "fill", fillStyle |-> fillStyle']
                      /\ NewCommands[n].op = "stroke"
              /\ (<<startX, startY>> = <<Num(50), Num(50)>>
                  /\ <<prevX, prevY>> = <<Num(50), Num(50)>>
                  /\ colorChoice = Num(1) /\ shapeType = Num(0)
                  /\ x = 50 /\ y = 55)
                   => NewCommands =
                        <<[op |-> "fillRect", x |-> 30, y |-> 35,
                           w |-> 40, h |-> 40, fillStyle |-> "red"],
                          [op |-> "strokeRect", x |-> 30, y |-> 35,
                           w |-> 40, h |-> 40]>>]_vars

\* The scenario: down at (50,50) with Red and Square, move to (50,55); the
\* surface holds the white background and one red square around (50,55).
C8_Witness ==
    /\ dragging /\ event.type = "mousemove" /\ calls.doMouseMove = 1
    /\ <<startX, startY>> = <<Num(50), Num(50)>>
    /\ <<prevX, prevY>> = <<Num(50), Num(55)>>
    /\ colorChoice = Num(1) /\ shapeType = Num(0)
    /\ fillStyle = "red"
    /\ Len(surface) = 3
    /\ surface[2] = [op |-> "fillRect", x |-> 30, y |-> 35, w |-> 40, h |-> 40,
                     fillStyle |-> "red"]
    /\ surface[3] = [op |-> "strokeRect", x |-> 30, y |-> 35, w |-> 40, h |-> 40]

-----------------------------------------------------------------------------
(* C9 *)

\* C9: a pointer-down received while Dragging, whatever its button, leaves
\* the controller Dragging, leaves startPosition, lastPosition and the frozen
\* selections, and registers no listener.
C9_DownWhileDraggingIgnored ==
    [][(event'.type = "mousedown" /\ dragging)
        => /\ dragging'
           /\ UNCHANGED <<startX, startY, prevX, prevY, colorChoice, shapeType>>
           /\ docListeners' = docListeners
           /\ canvasListeners' = canvasListeners]_vars

\* A primary pointer-down away from the start was handled during a drag whose
\* frozen colour is no longer the one the control holds.
C9_Witness ==
    /\ dragging /\ event.type = "mousedown" /\ calls.doMouseDown = 1
    /\ event.button = 0
    /\ EventPoint(event) # <<startX, startY>>
    /\ colorChoice # ControlIndex(colorValue)

-----------------------------------------------------------------------------
(* C10 *)

\* C10: with the frozen colour Red every stamp of a drag sets the fill style
\* to "red" and paints with it, however many stamps and discarded moves came
\* before; likewise "green", "blue" and "yellow" for Green, Blue and Yellow.
C10_NamedColourSameStringEveryStamp ==
    [][QualifyingMove
        => /\ colorChoice' = colorChoice
           /\ \A k \in 1..4 : colorChoice = Num(k)
                => /\ fillStyle' = NamedColor[k]
                   /\ \A i \in DOMAIN NewCommands :
                        NewCommands[i].op \in {"fillRect", "fill"}
                          => NewCommands[i].fillStyle = NamedColor[k]]_vars

\* Two stamps of one Red drag: the drag started at (50,50) and lastPosition is
\* (50,50) again, so both stamps of the log are its own, and both are red.
C10_Witness ==
    /\ dragging /\ colorChoice = Num(1)
    /\ <<startX, startY>> = <<Num(50), Num(50)>>
    /\ <<prevX, prevY>> = <<Num(50), Num(50)>>
    /\ StampCount(surface) = 2
    /\ \A i \in 2..Len(surface) :
         surface[i].op = "fillRect" => surface[i].fillStyle = "red"
    /\ fillStyle = "red"

-----------------------------------------------------------------------------
(* C11 *)

\* C11: a Star stamp at (x, y) is a path of exactly 15 path commands, one
\* move-to at angle 0 and 14 line-to's at the angle indices 0..13 (index k for
\* the angle k*2*PI/13 at radius 50 around (x, y)), in this order, and the
\* path is then filled and after that stroked.
C11_StarPathHasFifteenCommands ==
    [][(QualifyingMove /\ shapeType = Num(1))
        => LET x == LocalX(event')
               y == LocalY(event')
               new == NewCommands
               path == SelectSeq(new, LAMBDA c : c.op \in {"moveTo", "lineTo"})
           IN /\ Len(new) = 18
              /\ new[1].op = "beginPath"
              /\ Len(path) = 15
              /\ path = SubSeq(new, 2, 16)
              /\ path[1] = [op |-> "moveTo",
                            to |-> [cx |-> x, cy |-> y, size |-> 50,
                                    i |-> 0, n |-> 13]]
              /\ \A k \in 0..13 :
                   path[k + 2] = [op |-> "lineTo",
                                  to |-> [cx |-> x, cy |-> y, size |-> 50,
                                          i |-> k, n |-> 13]]
              /\ new[17].op = "fill"
              /\ new[18].op = "stroke"]_vars

\* A star was stamped at (50,55): the log ends with its 18 commands, the last
\* line-to at angle index 13.
C11_Witness ==
    /\ dragging /\ event.type = "mousemove" /\ calls.doMouseMove = 1
    /\ shapeType = Num(1)
    /\ <<prevX, prevY>> = <<Num(50), Num(55)>>
    /\ Len(surface) = 19
    /\ surface[2].op = "beginPath"
    /\ surface[17].op = "lineTo" /\ surface[17].to.i = 13
    /\ surface[19].op = "stroke"

-----------------------------------------------------------------------------
(* C12 *)

\* This step calls the helper fn.
Calls(fn) == event'.type = "call" /\ event'.fn = fn

\* The step adds the closed polygon through the complete (x, y) pairs of
\* args to the surface, painted once by the command paint.
PaintsPolygon(args, paint) ==
    LET pairs == Len(args) \div 2
        new == NewCommands
    IN /\ Len(new) = pairs + 3
       /\ new[1] = [op |-> "beginPath"]
       /\ new[2] = [op |-> "moveTo",
                    to |-> [x |-> Num(args[1]), y |-> Num(args[2])]]
       /\ \A k \in 2..pairs :
            new[k + 1] = [op |-> "lineTo",
                          to |-> [x |-> Num(args[2 * k - 1]),
                                  y |-> Num(args[2 * k])]]
       /\ new[pairs + 2] = [op |-> "closePath"]
       /\ new[pairs + 3] = paint

\* C12: fillPoly with fewer than 6 numbers and strokePoly with fewer than 4
\* issue no command at all; with at least that many, the path is one move-to
\* to the first vertex, one line-to per further complete pair in order, a
\* closePath, and then exactly one fill (fillPoly) or stroke (strokePoly).
C12_PolygonMinimumAndClosedPath ==
    [][/\ (Calls("fillPoly") /\ Len(event'.args) < 6)
            => UNCHANGED <<surface, gstate, fillStyle>>
       /\ (Calls("strokePoly") /\ Len(event'.args) < 4)
            => UNCHANGED <<surface, gstate, fillStyle>>
       /\ (Calls("fillPoly") /\ Len(event'.args) >= 6)
            => PaintsPolygon(event'.args, [op |-> "fill", fillStyle |-> fillStyle])
       /\ (Calls("strokePoly") /\ Len(event'.args) >= 4)
            => PaintsPolygon(event'.args, [op |-> "stroke"])]_vars

\* fillPoly(0,0,10,0,5,10) on the fresh surface: the closed triangle, filled.
C12_Witness ==
    /\ event.type = "call" /\ event.fn = "fillPoly"
    /\ event.args = <<0, 0, 10, 0, 5, 10>>
    /\ Len(surface) = 7
    /\ surface[3] = [op |-> "moveTo", to |-> [x |-> Num(0), y |-> Num(0)]]
    /\ surface[4] = [op |-> "lineTo", to |-> [x |-> Num(10), y |-> Num(0)]]
    /\ surface[5] = [op |-> "lineTo", to |-> [x |-> Num(5), y |-> Num(10)]]
    /\ surface[6].op = "closePath"
    /\ surface[7].op = "fill"

-----------------------------------------------------------------------------
(* C13 *)

\* The step adds an oval's commands, painted by the command paint, and leaves
\* the transform and the saved states as they were.
PaintsOval(a, paint) ==
    /\ NewCommands =
         <<[op |-> "save"],
           [op |-> "translate", x |-> a[1], y |-> a[2]],
           [op |-> "scale", x |-> a[3], y |-> a[4]],
           [op |-> "beginPath"],
           [op |-> "arc", x |-> 0, y |-> 0, r |-> 1, start |-> 0,
            end |-> "2*PI", counterclockwise |-> FALSE,
            transform |-> gstate.transform
                          \o <<[op |-> "translate", x |-> a[1], y |-> a[2]],
                               [op |-> "scale", x |-> a[3], y |-> a[4]]>>],
           [op |-> "restore"],
           paint>>
    /\ gstate'.transform = gstate.transform
    /\ Len(gstate'.saved) = Len(gstate.saved)

\* C13: fillOval and strokeOval issue save, translate(x,y), scale(rh,rv),
\* beginPath, the unit-circle arc, restore and only then the paint command;
\* the transform and the depth of the saved-state stack after the call are
\* those before it.
C13_OvalTransformIsScoped ==
    [][/\ Calls("fillOval")
            => PaintsOval(event'.args, [op |-> "fill", fillStyle |-> fillStyle])
       /\ Calls("strokeOval")
            => PaintsOval(event'.args, [op |-> "stroke"])]_vars

\* fillOval(50,50,10,20) on the fresh surface: restore, then fill, and the
\* identity transform with nothing saved afterwards.
C13_Witness ==
    /\ event.type = "call" /\ event.fn = "fillOval"
    /\ event.args = <<50, 50, 10, 20>>
    /\ Len(surface) = 8
    /\ surface[2].op = "save"
    /\ surface[7].op = "restore"
    /\ surface[8].op = "fill"
    /\ gstate = [transform |-> <<>>, saved |-> <<>>]

-----------------------------------------------------------------------------
(* C14 *)

\* The surface could not be acquired: no canvas element, or getContext throws
\* or yields no context.
AcquisitionFailed(pg) == ~pg.canvas \/ pg.getContext \in {"throws", "null"}

\* C14: once init() has run on a page whose surface cannot be acquired, the
\* fallback message has been written exactly once, no pointer-down listener
\* is installed, and no drag is active and nothing is painted.
C14_AcquisitionFailureReportedOnce ==
    (page.phase # "loading" /\ AcquisitionFailed(page))
        => /\ page.fallback = 1
           /\ canvasListeners = <<>>
           /\ ~dragging
           /\ surface = <<>>

-----------------------------------------------------------------------------
(* C15 *)

\* C15: a pointer-up received while Idle changes nothing of the controller
\* (state, positions, selections, listener registrations, surface); after a
\* pointer-up, whenever received, the controller is Idle; and while Idle no
\* event of the pointer or the controls changes the surface and only a primary
\* pointer-down on the surface starts a drag, so no move paints between a
\* pointer-up and the next such down.
C15_PointerUpEndsPainting ==
    [][/\ (event'.type = "mouseup" /\ ~dragging)
            => UNCHANGED <<dragging, startX, startY, prevX, prevY, colorChoice,
                           shapeType, canvasListeners, docListeners, fillStyle,
                           surface>>
       /\ event'.type = "mouseup" => ~dragging'
       /\ ~dragging
            => /\ UserEvent => surface' = surface
               /\ dragging' => (event'.type = "mousedown" /\ event'.button = 0)]_vars

\* A pointer-up was delivered to the up handler, the controller is Idle, and
\* the surface holds the stamps painted before it.
C15_Witness ==
    /\ event.type = "mouseup" /\ calls.doMouseUp = 1
    /\ ~dragging
    /\ StampCount(surface) = MaxStamps
    /\ ~HasListener(docListeners, "mousemove", "doMouseMove")

-----------------------------------------------------------------------------
(* C16 *)

\* C16: the pointer-down that starts a drag paints nothing and makes its
\* position lastPosition; a step that stamps is a move received while Dragging
\* at Manhattan distance >= 3 from lastPosition, and it makes the stamp's
\* position lastPosition; between two stamps of a drag that stamps a shape
\* lastPosition does not change.  So lastPosition is the previous stamp of the
\* drag, or the down position before the first, and every stamp is at distance
\* >= 3 from it.
C16_StampsAtLeastThreeApart ==
    [][/\ DragStart
            => /\ surface' = surface
               /\ <<prevX', prevY'>> = EventPoint(event')
               /\ <<startX', startY'>> = EventPoint(event')
       /\ (surface' # surface /\ UserEvent)
            => /\ QualifyingMove
               /\ <<prevX', prevY'>> = EventPoint(event')
               /\ shapeType = Num(0)
                    => NewCommands[1].x = LocalX(event') - 20
                       /\ NewCommands[1].y = LocalY(event') - 20
               /\ shapeType = Num(1)
                    => PathCentredOn(NewCommands, LocalX(event'), LocalY(event'))
       /\ (dragging /\ dragging' /\ ShapeInRange(shapeType)
           /\ (surface' = surface \/ ~UserEvent))
            => UNCHANGED <<prevX, prevY>>]_vars

\* Two stamps of one drag of squares: down at (50,50), a stamp at (51,52),
\* distance 3 from the down position, then a stamp at (50,50), distance 3 from
\* the first.
C16_Witness ==
    /\ dragging /\ event.type = "mousemove" /\ calls.doMouseMove = 1
    /\ shapeType = Num(0)
    /\ <<startX, startY>> = <<Num(50), Num(50)>>
    /\ <<prevX, prevY>> = <<Num(50), Num(50)>>
    /\ Len(surface) = 5
    /\ surface[3] = [op |-> "strokeRect", x |-> 31, y |-> 32, w |-> 40, h |-> 40]
    /\ surface[5] = [op |-> "strokeRect", x |-> 30, y |-> 30, w |-> 40, h |-> 40]

-----------------------------------------------------------------------------
(* C17 *)

\* No listener is in the document's list twice.
NoDuplicateListener(ls) == \A i, j \in DOMAIN ls : ls[i] = ls[j] => i = j

\* C17: however many drags came before, the document's list holds no listener
\* twice, a delivered move runs the move handler at most once, a delivered up
\* runs the up handler at most once, and a step paints at most one stamp.
C17_RegistrationsNeverAccumulate ==
    [][/\ NoDuplicateListener(docListeners')
       /\ NoDuplicateListener(canvasListeners')
       /\ calls'.doMouseMove <= 1
       /\ calls'.doMouseUp <= 1
       /\ calls'.doMouseDown <= 1
       /\ StampCount(surface') <= StampCount(surface) + 1]_vars

\* A move of a later drag: the up listener is registered before the move
\* listener, so an earlier drag has ended; the move ran the handler once and
\* painted the one stamp of the surface.
C17_Witness ==
    /\ dragging /\ event.type = "mousemove" /\ calls.doMouseMove = 1
    /\ docListeners = <<Listener("mouseup", "doMouseUp"),
                        Listener("mousemove", "doMouseMove")>>
    /\ <<prevX, prevY>> = EventPoint(event)
    /\ <<prevX, prevY>> # <<startX, startY>>
    /\ shapeType = Num(0)
    /\ StampCount(surface) = 1

-----------------------------------------------------------------------------
(* C18 *)

\* C18: in every reachable state the move listener is registered on the
\* document if and only if the controller is Dragging.
C18_MoveListenerIffDragging ==
    HasListener(docListeners, "mousemove", "doMouseMove") <=> dragging

\* Idle after a drag that painted: the move listener is gone, the document's
\* list is not empty.
C18_Witness ==
    /\ ~dragging /\ event.type = "mouseup"
    /\ docListeners = <<Listener("mouseup", "doMouseUp")>>
    /\ IsNum(startX) /\ StampCount(surface) >= 1

-----------------------------------------------------------------------------
(* C19 *)

\* The line-to commands this step adds.
NewLines == SelectSeq(NewCommands, LAMBDA c : c.op = "lineTo")

\* The step issues floor(n/2) - 1 line-to commands for the n numbers args,
\* every coordinate of its path is one of the numbers, and the last vertex is
\* the last complete pair.
LinesOfCompletePairs(args) ==
    LET n == Len(args)
        new == NewCommands
        path == SelectSeq(new, LAMBDA c : c.op \in {"moveTo", "lineTo"})
    IN /\ Len(NewLines) = (n \div 2) - 1
       /\ \A i \in DOMAIN path : IsNum(path[i].to.x) /\ IsNum(path[i].to.y)
       /\ path[Len(path)].to = [x |-> Num(args[2 * (n \div 2) - 1]),
                                y |-> Num(args[2 * (n \div 2)])]

\* C19: fillPoly with n >= 6 numbers and strokePoly with n >= 4 numbers issue
\* floor(n/2) - 1 line-to commands; with n odd the last number is in no
\* command and no coordinate is read past the end of the argument list.
C19_LineToCountIgnoresUnpaired ==
    [][/\ (Calls("fillPoly") /\ Len(event'.args) >= 6)
            => LinesOfCompletePairs(event'.args)
       /\ (Calls("strokePoly") /\ Len(event'.args) >= 4)
            => LinesOfCompletePairs(event'.args)]_vars

\* strokePoly(0,0,10,0,5,10,7) on the fresh surface: seven numbers, two
\* line-to commands, the last to (5,10).
C19_Witness ==
    /\ event.type = "call" /\ event.fn = "strokePoly"
    /\ event.args = <<0, 0, 10, 0, 5, 10, 7>>
    /\ Len(surface) = 7
    /\ surface[5] = [op |-> "lineTo", to |-> [x |-> Num(5), y |-> Num(10)]]
    /\ surface[6].op = "closePath"
    /\ surface[7].op = "stroke"

====
